---- MODULE Spec2Model ----
(***************************************************************************)
(* A model of src/src/elm.py: the ELM estimator (class ELM), its helpers   *)
(* __sigmoid, __add_bias, __ltov and its operations fit and predict.       *)
(*                                                                         *)
(* Numbers.  numpy arrays are records [shape, v, den]: v holds integer     *)
(* numerators, den a positive common denominator, so that every value the  *)
(* code computes from integer data is represented exactly as a rational.   *)
(* The one irrational step, 1 / (1 + exp(-a x)), is rounded to tenths.     *)
(* A missing attribute of the instance is <<>>, a present one <<value>>.   *)
(***************************************************************************)
EXTENDS Integers, Sequences, FiniteSets

\* ------------------------------------------------------------ bounds
\* __ltov alone is tried on class counts and labels up to MaxClasses.
MaxClasses == 5
\* Lines 91-94 of fit alone are tried on label vectors of length up to
\* MaxLen with labels from -1 to MaxLabel.
MaxLen == 3
MaxLabel == 2

\* ------------------------------------------------------------ inputs
\* The instances tried, as <<hid_num, a>>: hid_num 2 and 1 with a positive
\* and a zero sigmoid constant, and a zero and a negative hid_num.
Configs == {<<2, 1>>, <<1, 0>>, <<0, 1>>, <<-1, 1>>}
\* Row counts of X (and lengths of y, which may also be empty) tried on fit
\* and predict.
Rows == {1, 2}
\* Column counts of X (feature dimensionality D) tried on fit and predict.
Cols == {1, 2}
\* Labels tried on fit: -1 (the negative class of a +1/-1 labelling), 1, 2.
Labels == {-1, 1, 2}
\* What np.random.seed() without an argument may draw from the operating
\* system, as the generator state it leaves.
Entropy == {0, 1}
\* Seeds a caller may give the process-wide generator.
Seeds == {2, 3}

\* ------------------------------------------------------------ arrays
Absent == <<>>
Has(attr) == attr # <<>>
Get(attr) == attr[1]

RECURSIVE SumTo(_, _)
SumTo(f, n) == IF n = 0 THEN 0 ELSE f[n] + SumTo(f, n - 1)

RECURSIVE MaxOf(_, _)
\* Python's max over a non-empty sequence: MaxOf(y, Len(y)).
MaxOf(s, n) == IF n = 1 THEN s[1]
               ELSE LET m == MaxOf(s, n - 1) IN IF s[n] > m THEN s[n] ELSE m

RECURSIVE Elems(_, _)
\* The sequence f[1], ..., f[n], each element computed once.
Elems(f, n) == IF n <= 0 THEN <<>> ELSE Append(Elems(f, n - 1), f[n])

Arr1(v, den) == [shape |-> <<Len(v)>>, v |-> Elems(v, Len(v)), den |-> den]
Arr2(r, c, v, den) ==
    [shape |-> <<r, c>>, v |-> Elems([i \in 1..r |-> Elems(v[i], c)], r), den |-> den]
NDim(A) == Len(A.shape)

\* A.T of a 2-D array
T(A) ==
    Arr2(A.shape[2], A.shape[1],
         [j \in 1..A.shape[2] |-> [i \in 1..A.shape[1] |-> A.v[i][j]]], A.den)

\* np.dot(A, B) for a 2-D A and a 1-D or 2-D B: defined when the last axis
\* of A is as long as the first axis of B, a ValueError otherwise.
DotOK(A, B) == A.shape[2] = B.shape[1]
dot(A, B) ==
    LET r == A.shape[1]
        n == A.shape[2]
    IN  IF NDim(B) = 1
        THEN Arr1([i \in 1..r |-> SumTo([k \in 1..n |-> A.v[i][k] * B.v[k]], n)],
                  A.den * B.den)
        ELSE Arr2(r, B.shape[2],
                  [i \in 1..r |-> [j \in 1..B.shape[2] |->
                      SumTo([k \in 1..n |-> A.v[i][k] * B.v[k][j]], n)]],
                  A.den * B.den)

\* ------------------------------------------------------------ helpers
\* 10 / (1 + exp(-z)) rounded to the nearest integer, for an integer z.
Sig10(z) ==
    CASE z <= -3 -> 0
      [] z = -2 -> 1
      [] z = -1 -> 3
      [] z = 0 -> 5
      [] z = 1 -> 7
      [] z = 2 -> 9
      [] OTHER -> 10

\* __sigmoid(x) = 1 / (1 + np.exp(-self.a * x)), elementwise on an integer
\* 2-D array x; the result is in tenths.
sigmoid(a_, x) ==
    Arr2(x.shape[1], x.shape[2],
         [i \in 1..x.shape[1] |-> [j \in 1..x.shape[2] |-> Sig10(a_ * x.v[i][j])]],
         10)

\* __add_bias(X) = np.c_[X, np.ones(X.shape[0])]
add_bias(X) ==
    Arr2(X.shape[1], X.shape[2] + 1,
         [i \in 1..X.shape[1] |-> Append(X.v[i], 1)], 1)

\* __ltov with range(n) in place of range(1, n + 1): positions counted from 0.
ltov_range0(n, label) ==
    [i \in 1..(IF n > 0 THEN n ELSE 0) |-> IF i - 1 # label THEN -1 ELSE 1]

\* __ltov(n, label) = [-1 if i != label else 1 for i in range(1, n + 1)]
\* range(1, n + 1) is empty when n <= 0.
ltov(n, label) ==
    [i \in 1..(IF n > 0 THEN n ELSE 0) |-> IF i # label THEN -1 ELSE 1]

\* np.sign of one rational with a positive denominator
Sgn(x) == IF x > 0 THEN 1 ELSE IF x < 0 THEN -1 ELSE 0

\* np.sign(y), elementwise on a 1-D or 2-D array
sign(y) ==
    IF NDim(y) = 1
    THEN Arr1([i \in 1..y.shape[1] |-> Sgn(y.v[i])], 1)
    ELSE Arr2(y.shape[1], y.shape[2],
              [i \in 1..y.shape[1] |-> [j \in 1..y.shape[2] |-> Sgn(y.v[i][j])]], 1)

\* np.argmax of one non-empty row: the 0-based index of the first maximum.
ArgMaxRow(row) ==
    (CHOOSE j \in 1..Len(row) :
        /\ \A k \in 1..Len(row) : row[k] <= row[j]
        /\ \A k \in 1..(j - 1) : row[k] < row[j]) - 1

\* np.argmax(y, 1) is defined for a 2-D y with at least one column: axis 1
\* of a 1-D array is out of bounds, and an empty row has no maximum.
ArgMaxOK(y) == NDim(y) = 2 /\ y.shape[2] > 0
argmax(y) == Arr1([i \in 1..y.shape[1] |-> ArgMaxRow(y.v[i])], 1)

\* np.linalg.pinv(A), the Moore-Penrose pseudo-inverse of a 2-D array with
\* at most two rows.  With G = A A^T: an empty A has an empty inverse; a zero
\* A has a zero inverse; a rank-1 A has A^T / trace(G); a 2-row A of rank 2
\* has A^T adj(G) / det(G).
pinv(A) ==
    LET r == A.shape[1]
        c == A.shape[2]
        gram(i, k) == SumTo([j \in 1..c |-> A.v[i][j] * A.v[k][j]], c)
        G == Arr2(r, r, [i \in 1..r |-> [k \in 1..r |-> gram(i, k)]], 1)
        g(i, k) == G.v[i][k]
        zeros == Arr2(c, r, [j \in 1..c |-> [i \in 1..r |-> 0]], 1)
        scaled(q) == Arr2(c, r, [j \in 1..c |-> [i \in 1..r |-> A.den * A.v[i][j]]], q)
    IN  IF r <= 0 \/ c <= 0 THEN Arr2(c, r, [j \in 1..c |-> <<>>], 1)
        ELSE IF r = 1
        THEN IF g(1, 1) = 0 THEN zeros ELSE scaled(g(1, 1))
        ELSE LET det == g(1, 1) * g(2, 2) - g(1, 2) * g(1, 2)
             IN  IF det # 0
                 THEN Arr2(c, r,
                           [j \in 1..c |->
                               << A.den * (A.v[1][j] * g(2, 2) - A.v[2][j] * g(1, 2)),
                                  A.den * (A.v[2][j] * g(1, 1) - A.v[1][j] * g(1, 2)) >>],
                           det)
                 ELSE IF g(1, 1) + g(2, 2) = 0 THEN zeros
                 ELSE scaled(g(1, 1) + g(2, 2))

\* The process-wide generator: a deterministic function of its state.  Its
\* step is the linear congruence s -> (5 s + 3) % 16 (full period), and the
\* value drawn from a state is (s % 3) - 1, one of -1, 0, 1 in [-1, 1].
RECURSIVE RngAfter(_, _)
RngAfter(s, k) == IF k <= 0 THEN s ELSE RngAfter((5 * s + 3) % 16, k - 1)
Sample(s) == (s % 3) - 1

\* np.random.uniform(-1., 1., (h, c)) from generator state s: h * c draws in
\* row-major order.  A negative h is a ValueError (negative dimensions).
UniformOK(h) == h >= 0
Uniform(s, h, c) ==
    Arr2(h, c, [i \in 1..h |-> [j \in 1..c |-> Sample(RngAfter(s, (i - 1) * c + j))]], 1)

\* The feature matrix tried for each shape: row i, column j holds
\* ((i - 1) * j) % 3, so rows differ and the first row is zero.
XOf(n, d) == Arr2(n, d, [i \in 1..n |-> [j \in 1..d |-> ((i - 1) * j) % 3]], 1)
Xs == {XOf(n, d) : n \in Rows, d \in Cols}
\* The label vectors tried: the empty one and every length in Rows, labels in
\* non-decreasing order (rows grouped by class).
Ys == {y \in UNION {[1..m -> Labels] : m \in {0} \cup Rows} :
          \A i \in 1..(Len(y) - 1) : y[i] <= y[i + 1]}

\* ------------------------------------------------------------ state
VARIABLES
    hid_num,    \* self.hid_num, set by __init__
    a,          \* self.a, set by __init__
    out_num,    \* self.out_num: <<>> until fit assigns it
    W,          \* self.W: <<>> until fit assigns it
    beta,       \* self.beta: <<>> until fit assigns it
    rng,        \* state of the process-wide generator np.random
    ret,        \* the last call: its operation, arguments and outcome
    gen,        \* history: which fit call wrote out_num, W and beta (0: none;
                \* equal ranks: the same call; a larger rank: a later call)
    hist,       \* history: whether fit was ever called, and the shape of X
                \* in the last fit that returned normally
    seeded,     \* history: the seed the caller gave np.random, <<>> once the
                \* generator has been reseeded or was never seeded
    runs        \* history: the last two fits that returned after a caller's
                \* seed, each with its seed, arguments, W and beta

inst == <<hid_num, a, out_num, W, beta>>
vars == <<hid_num, a, out_num, W, beta, rng, ret, gen, hist, seeded, runs>>

NoCall == [op |-> "none", args |-> <<>>, exc |-> "None", val |-> <<>>]

\* ------------------------------------------------------------ fit
\* Lines 91-94 with the test out_num > 1 in place of out_num != 1.
Target_gt1(y) ==
    LET o == MaxOf(y, Len(y))
    IN  [out_num |-> o,
         y |-> IF o > 1
               THEN Arr2(Len(y), Len(ltov(o, o)), [i \in 1..Len(y) |-> ltov(o, y[i])], 1)
               ELSE Arr1(y, 1)]

\* fit, lines 91-94: out_num = max(y); if out_num != 1, every label becomes
\* __ltov(out_num, label) and y an array of Len(y) such rows; else y stays.
Target(y) ==
    LET o == MaxOf(y, Len(y))
    IN  [out_num |-> o,
         y |-> IF o # 1
               THEN Arr2(Len(y), Len(ltov(o, o)), [i \in 1..Len(y) |-> ltov(o, y[i])], 1)
               ELSE Arr1(y, 1)]

\* self.__sigmoid(np.dot(W, self.__add_bias(X).T)), lines 105 and 122
HiddenOK(Wc, X) == DotOK(Wc, T(add_bias(X)))
Hidden(Wc, X) == sigmoid(a, dot(Wc, T(add_bias(X))))

\* Line 107 with y first resized (np.resize: repeated or cut) to the row
\* count of _H.T, so that np.dot never sees a mismatch.
OutputWeights_resized(H, y) ==
    LET n == H.shape[2]
        yv == [i \in 1..n |-> y.v[((i - 1) % y.shape[1]) + 1]]
        yr == IF NDim(y) = 1 THEN Arr1(yv, 1) ELSE Arr2(n, y.shape[2], yv, 1)
    IN  [exc |-> "None", beta |-> <<dot(T(pinv(H)), yr)>>]

\* fit, lines 105-107: _H = np.linalg.pinv(H); self.beta = np.dot(_H.T, y).
\* _H.T has the shape of H, so np.dot raises exactly when DotOK(H, y) fails.
OutputWeights(H, y) ==
    IF DotOK(H, y)
    THEN [exc |-> "None", beta |-> <<dot(T(pinv(H)), y)>>]
    ELSE [exc |-> "ValueError", beta |-> beta]

\* One call of fit(X, y): the exception it ends with ("None": it returns
\* self), the attributes and the generator state it leaves, and how many of
\* out_num, W, beta (assigned in this order) it wrote.  e is what
\* np.random.seed() draws from the operating system; emptyRaises is whether
\* this numpy's pinv rejects an empty matrix (LinAlgError) or inverts it.
FitOutcome(X, y, e, emptyRaises) ==
    IF Len(y) = 0
    THEN \* line 91: max() of an empty sequence
         [exc |-> "ValueError", out_num |-> out_num, W |-> W, beta |-> beta,
          rng |-> rng, wrote |-> 0]
    ELSE
    LET t == Target(y)
        c == add_bias(X).shape[2]
    IN  IF ~UniformOK(hid_num)
        THEN \* line 101, after out_num was assigned and the generator reseeded
             [exc |-> "ValueError", out_num |-> <<t.out_num>>, W |-> W,
              beta |-> beta, rng |-> e, wrote |-> 1]
        ELSE
        LET Wn == Uniform(e, hid_num, c)
            H == Hidden(Wn, X)
            after == RngAfter(e, hid_num * c)
        IN  IF hid_num = 0 /\ emptyRaises
            THEN \* line 105: pinv of an empty matrix
                 [exc |-> "LinAlgError", out_num |-> <<t.out_num>>, W |-> <<Wn>>,
                  beta |-> beta, rng |-> after, wrote |-> 2]
            ELSE
            LET b == OutputWeights(H, t.y)
            IN  [exc |-> b.exc, out_num |-> <<t.out_num>>, W |-> <<Wn>>,
                 beta |-> b.beta, rng |-> after,
                 wrote |-> IF b.exc = "None" THEN 3 ELSE 2]

\* History: the attributes a call wrote get a rank above all others, and
\* the ranks are renumbered 1, 2, ... in order.
Stamp(g, wrote) ==
    LET raw == [out_num |-> IF wrote >= 1 THEN 4 ELSE g.out_num,
                W |-> IF wrote >= 2 THEN 4 ELSE g.W,
                beta |-> IF wrote >= 3 THEN 4 ELSE g.beta]
        used == {raw.out_num, raw.W, raw.beta} \ {0}
        rank(k) == IF k = 0 THEN 0 ELSE Cardinality({u \in used : u <= k})
    IN  [out_num |-> rank(raw.out_num), W |-> rank(raw.W), beta |-> rank(raw.beta)]

\* History: a fit that returned after a caller's seed is remembered, the
\* first one and the latest one that had the first one's seed and arguments.
Remember(rs, seed, X, y, o) ==
    LET r == [seed |-> seed, X |-> X, y |-> y, W |-> Get(o.W), beta |-> Get(o.beta)]
    IN  IF rs = <<>> THEN <<r>>
        ELSE IF rs[1].seed = seed /\ rs[1].X = X /\ rs[1].y = y THEN <<rs[1], r>>
        ELSE rs

FitCall(X, y, e, emptyRaises) ==
    \E o \in {FitOutcome(X, y, e, emptyRaises)} :
        /\ out_num' = o.out_num
        /\ W' = o.W
        /\ beta' = o.beta
        /\ rng' = o.rng
        /\ UNCHANGED <<hid_num, a>>
        /\ ret' = [op |-> "fit", args |-> [X |-> X, ylen |-> Len(y)], exc |-> o.exc,
                   val |-> <<>>]
        /\ gen' = Stamp(gen, o.wrote)
        /\ hist' = [called |-> TRUE, ok |-> IF o.exc = "None" THEN <<X>> ELSE hist.ok]
        /\ seeded' = IF o.wrote >= 1 THEN <<>> ELSE seeded
        /\ runs' = IF Has(seeded) /\ o.exc = "None"
                   THEN Remember(runs, Get(seeded), X, y, o)
                   ELSE runs

EmptyPinv == IF hid_num = 0 THEN BOOLEAN ELSE {FALSE}

Fit ==
    \E X \in Xs, y \in Ys, e \in Entropy, emptyRaises \in EmptyPinv :
        FitCall(X, y, e, emptyRaises)

\* ------------------------------------------------------------ predict
\* Lines 125-128 without the "+ np.ones(y.shape[0])": 0-based labels.
Decode_no_offset(y) ==
    IF Get(out_num) = 1
    THEN [exc |-> "None", val |-> <<sign(y)>>]
    ELSE IF ~ArgMaxOK(y)
    THEN [exc |-> "ValueError", val |-> <<>>]
    ELSE [exc |-> "None", val |-> <<argmax(y)>>]

\* predict, lines 125-128: np.sign(y) when out_num is 1, else
\* np.argmax(y, 1) + np.ones(y.shape[0]).
Decode(y) ==
    IF Get(out_num) = 1
    THEN [exc |-> "None", val |-> <<sign(y)>>]
    ELSE IF ~ArgMaxOK(y)
    THEN [exc |-> "ValueError", val |-> <<>>]
    ELSE [exc |-> "None",
          val |-> <<Arr1([i \in 1..y.shape[1] |-> argmax(y).v[i] + 1], 1)>>]

\* One call of predict(X): the exception it ends with and what it returns.
PredictOutcome(X) ==
    IF ~Has(W)
    THEN [exc |-> "AttributeError", val |-> <<>>]           \* self.W, line 122
    ELSE IF ~HiddenOK(Get(W), X)
    THEN [exc |-> "ValueError", val |-> <<>>]               \* np.dot, line 122
    ELSE IF ~Has(beta)
    THEN [exc |-> "AttributeError", val |-> <<>>]           \* self.beta, line 123
    ELSE IF ~DotOK(T(Hidden(Get(W), X)), Get(beta))
    THEN [exc |-> "ValueError", val |-> <<>>]               \* np.dot, line 123
    ELSE Decode(dot(T(Hidden(Get(W), X)), Get(beta)))

\* predict with its result also assigned to self.beta.
PredictCall_storing(X) ==
    \E o \in {PredictOutcome(X)} :
        /\ ret' = [op |-> "predict", args |-> [X |-> X], exc |-> o.exc, val |-> o.val]
        /\ beta' = IF o.exc = "None" THEN o.val ELSE beta
        /\ UNCHANGED <<hid_num, a, out_num, W, rng, gen, hist, seeded, runs>>

PredictCall(X) ==
    \E o \in {PredictOutcome(X)} :
        /\ ret' = [op |-> "predict", args |-> [X |-> X], exc |-> o.exc, val |-> o.val]
        /\ UNCHANGED <<hid_num, a, out_num, W, beta, rng, gen, hist, seeded, runs>>

Predict == \E X \in Xs : PredictCall(X)

\* ------------------------------------------------------------ specification
\* __init__ that also presets zero weights for one feature column.
Init_preset ==
    /\ \E c \in Configs : hid_num = c[1] /\ a = c[2]
    /\ out_num = <<1>>
    /\ W = <<Uniform(0, hid_num, 2)>>
    /\ beta = <<Arr1([i \in 1..hid_num |-> 0], 1)>>
    /\ rng = 0
    /\ ret = NoCall
    /\ gen = [out_num |-> 0, W |-> 0, beta |-> 0]
    /\ hist = [called |-> FALSE, ok |-> <<>>]
    /\ seeded = <<>>
    /\ runs = <<>>

\* __init__(hid_num, a) stores its arguments and nothing else.
Init ==
    /\ \E c \in Configs : hid_num = c[1] /\ a = c[2]
    /\ out_num = Absent
    /\ W = Absent
    /\ beta = Absent
    /\ rng = 0
    /\ ret = NoCall
    /\ gen = [out_num |-> 0, W |-> 0, beta |-> 0]
    /\ hist = [called |-> FALSE, ok |-> <<>>]
    /\ seeded = <<>>
    /\ runs = <<>>

Next == Fit \/ Predict

Spec == Init /\ [][Next]_vars

\* ------------------------------------------------------------ seeded fits
\* A caller's np.random.seed(s) before a fit.
SeedRng ==
    \E s \in Seeds :
        /\ rng' = s
        /\ seeded' = <<s>>
        /\ UNCHANGED <<hid_num, a, out_num, W, beta, ret, gen, hist, runs>>

\* fit right after a caller's seed, on one X and two label vectors.
FitSeeded ==
    /\ Has(seeded)
    /\ \E y \in {<<1, 1>>, <<1, 2>>}, e \in Entropy : FitCall(XOf(2, 2), y, e, FALSE)

InitSeed == Init /\ hid_num = 2 /\ a = 1

NextSeed == SeedRng \/ FitSeeded \/ Predict

SpecSeed == InitSeed /\ [][NextSeed]_vars

\* ------------------------------------------------------------ encoders alone
\* e._ELM__ltov(n, label), as the doctests call it
LtovCall(n, label) ==
    /\ ret' = [op |-> "__ltov", args |-> [n |-> n, label |-> label], exc |-> "None",
               val |-> <<ltov(n, label)>>]
    /\ UNCHANGED <<hid_num, a, out_num, W, beta, rng, gen, hist, seeded, runs>>

Ltov == \E n \in -1..MaxClasses, label \in -1..(MaxClasses + 1) : LtovCall(n, label)

\* Lines 91-94 of fit on their own: out_num and the target they compute.
TargetCall(y) ==
    /\ ret' = [op |-> "target", args |-> [y |-> y], exc |-> "None", val |-> <<Target(y)>>]
    /\ UNCHANGED <<hid_num, a, out_num, W, beta, rng, gen, hist, seeded, runs>>

TargetYs == UNION {[1..m -> (-1)..MaxLabel] : m \in 1..MaxLen}

FitTarget == \E y \in TargetYs : TargetCall(y)

InitEnc == Init /\ hid_num = 2 /\ a = 1

NextEnc == Ltov \/ FitTarget

SpecEnc == InitEnc /\ [][NextEnc]_vars

\* ------------------------------------------------------------ properties
\* C1: for every n >= 1 and every label in 1..n, __ltov(n, label) has length
\* n, holds 1 at position label (index label - 1 from 0) and -1 at every
\* other position, so exactly one entry is 1.
C1_LtovOneHot ==
    (ret.op = "__ltov" /\ ret.args.n >= 1 /\ ret.args.label \in 1..ret.args.n) =>
        LET v == ret.val[1]
            n == ret.args.n
        IN  /\ Len(v) = n
            /\ v[ret.args.label] = 1
            /\ \A i \in 1..n : i # ret.args.label => v[i] = -1
            /\ Cardinality({i \in 1..n : v[i] = 1}) = 1

\* The doctest __ltov(3, 2) = [-1, 1, -1].
C1_Witness ==
    /\ ret.op = "__ltov"
    /\ ret.args = [n |-> 3, label |-> 2]
    /\ ret.val = << <<-1, 1, -1>> >>

\* The values of a returned 1-D label array.
LabelValues(r) == {r.v[i] : i \in 1..r.shape[1]}

\* All three fitted attributes are present and come from one fit call.
Fitted ==
    /\ Has(out_num) /\ Has(W) /\ Has(beta)
    /\ gen.out_num = gen.W /\ gen.W = gen.beta

\* No fitted attribute is present.
Unfitted == ~Has(out_num) /\ ~Has(W) /\ ~Has(beta)

C3_PredictNeedsFit ==
    ret.op = "predict" =>
        /\ ~hist.called => (ret.exc = "AttributeError" /\ ret.val = <<>>)
        /\ ~Has(hist.ok) => ret.exc # "None"
        /\ ret.val # <<>> => (Has(out_num) /\ Has(W) /\ Has(beta))

\* predict as the first call on a fresh instance.
C3_Witness ==
    /\ ret.op = "predict"
    /\ ~hist.called
    /\ Unfitted
    /\ ret.exc = "AttributeError"

\* C4: fit with an X whose row count differs from the length of y never
\* returns normally; with at least one hidden unit the failure is the
\* ValueError of a dimension mismatch (from np.dot, or from max() of an
\* empty y).
C4_FitRejectsRowMismatch ==
    (ret.op = "fit" /\ ret.args.X.shape[1] # ret.args.ylen) =>
        /\ ret.exc # "None"
        /\ hid_num >= 1 => ret.exc = "ValueError"

\* A two-row X with a single label above 1: the multiclass path fails.
C4_Witness ==
    /\ ret.op = "fit"
    /\ ret.args.X.shape[1] = 2
    /\ ret.args.ylen = 1
    /\ hid_num = 2
    /\ Has(out_num) /\ Get(out_num) = 2
    /\ ret.exc = "ValueError"

\* C5: no instance with a non-positive hid_num or a non-positive a completes
\* a fit and returns labels from predict.
C5_NonPositiveConfigRejected ==
    (hid_num <= 0 \/ a <= 0) =>
        /\ ~(ret.op = "fit" /\ ret.exc = "None")
        /\ ~(ret.op = "predict" /\ ret.exc = "None")

\* C6: two fits on the same (X, y), each right after the caller seeded the
\* generator with the same seed, leave identical W and identical beta.
C6_SeededFitsAgree ==
    Len(runs) = 2 => (runs[1].W = runs[2].W /\ runs[1].beta = runs[2].beta)

\* An instance whose hid_num and a are both positive.
ValidConfig == hid_num >= 1 /\ a >= 1

\* C7: on an instance with positive hid_num and a, after a fit on an X with
\* D columns that returned, W has shape (hid_num, D + 1), and predict on an
\* X whose column count differs from the D of the most recent fit that
\* returned fails with the dimension error.
C7_PredictChecksFitColumns ==
    /\ (ValidConfig /\ ret.op = "fit" /\ ret.exc = "None") =>
           Get(W).shape = <<hid_num, ret.args.X.shape[2] + 1>>
    /\ (/\ ValidConfig
        /\ ret.op = "predict"
        /\ Has(hist.ok)
        /\ ret.args.X.shape[2] # hist.ok[1].shape[2]) =>
           (ret.exc = "ValueError" /\ ret.val = <<>>)

\* C8: a call of predict leaves hid_num, a, out_num, W and beta as they
\* were, and a second call with the same X right after the first ends the
\* same way with the same labels.
C8_PredictPure ==
    [][/\ ret'.op = "predict" => UNCHANGED inst
       /\ (ret.op = "predict" /\ ret'.op = "predict" /\ ret'.args = ret.args) =>
              (ret'.val = ret.val /\ ret'.exc = ret.exc)]_vars

\* predict returned labels on a fitted instance.
C8_Witness ==
    /\ ret.op = "predict"
    /\ ret.exc = "None"
    /\ ret.val # <<>>
    /\ Fitted
    /\ hid_num = 2

\* C9: an instance with positive hid_num and a is always either unfitted
\* (out_num, W and beta all absent) or fitted (all present, from the same
\* fit call).
C9_UnfittedOrFitted == ValidConfig => (Unfitted \/ Fitted)

\* The target and out_num that lines 91-94 produced for the label vector y.
TargetIs(cols) ==
    LET r == ret.val[1]
        y == ret.args.y
        o == r.out_num
        N == Len(y)
    IN  /\ \A i \in 1..N : y[i] <= o
        /\ \E i \in 1..N : y[i] = o
        /\ o = 1 => (r.y.shape = <<N>> /\ r.y.v = y)
        /\ o # 1 =>
              /\ cols \in Int
              /\ r.y.shape = <<N, cols>>
              /\ \A i \in 1..N :
                    /\ Len(r.y.v[i]) = cols
                    /\ \A j \in 1..cols : r.y.v[i][j] = IF j = y[i] THEN 1 ELSE -1

====
